---- MODULE Spec2Model ----
(***************************************************************************)
(* Model of the quaero-engines provider adapters (bing, brave, google,     *)
(* mojeek, yahoo, yandex): Engine::url, Engine::headers,                   *)
(* Engine::validate_response and Engine::parse.  The adapters are          *)
(* stateless; the state of the model is the adapter call last made (its    *)
(* arguments) and what it returned.                                        *)
(*                                                                         *)
(* Strings are sequences of tokens.  The characters that carry structure   *)
(* in a URL ("?", "&", "=", "%") are always tokens of their own, a         *)
(* percent escape ("%26", "%3A", ...) is one token, the markers Yahoo's    *)
(* redirect links carry ("RU=", "RK=2") are one token each, and every      *)
(* other token is a run of characters holding none of these.               *)
(***************************************************************************)
EXTENDS Integers, Sequences, FiniteSets, TLC

VARIABLES call, ret

vars == <<call, ret>>

(* ---------------------------------------------------------------------- *)
(* Bounds of the model                                                     *)
(* ---------------------------------------------------------------------- *)

\* largest page number Engine::url is called with
MaxPage == 2
\* longest query text, in characters
MaxQueryLen == 2
\* largest number of candidate result nodes in a response document
MaxNodes == 2

(* ---------------------------------------------------------------------- *)
(* Option<T>: None is <<>>, Some(v) is <<v>>                               *)
(* ---------------------------------------------------------------------- *)

None == <<>>

Some(v) == <<v>>

IsSome(o) == o # <<>>

\* Option<String>::unwrap_or_default()
unwrap_or_default(o) == IF o = <<>> THEN <<>> ELSE o[1]

(* ---------------------------------------------------------------------- *)
(* usize: 64-bit unsigned, held as five base-10^4 limbs, least first       *)
(* ---------------------------------------------------------------------- *)

LimbBase == 10 ^ 4

\* 2^64 = 1844 6744 0737 0955 1616
TwoTo64 == <<1616, 955, 737, 6744, 1844, 0>>

USizeOf(n) == <<n % LimbBase, (n \div LimbBase) % LimbBase, n \div (LimbBase * LimbBase), 0, 0>>

RECURSIVE MulAddLimbs(_, _, _, _)
\* x * m + c over the limbs from i on; the last limb of the result is the carry out
MulAddLimbs(x, m, c, i) ==
  IF i > Len(x) THEN <<c>>
  ELSE LET t == x[i] * m + c
       IN  <<t % LimbBase>> \o MulAddLimbs(x, m, t \div LimbBase, i + 1)

RECURSIVE GeLimbs(_, _, _)
\* a >= b, comparing from limb i down
GeLimbs(a, b, i) ==
  IF i = 0 THEN TRUE
  ELSE IF a[i] # b[i] THEN a[i] > b[i]
  ELSE GeLimbs(a, b, i - 1)

RECURSIVE SubLimbs(_, _, _, _)
\* a - b (a >= b) over the limbs from i on, with borrow
SubLimbs(a, b, borrow, i) ==
  IF i > Len(a) THEN <<>>
  ELSE LET t == a[i] - b[i] - borrow
       IN  IF t < 0 THEN <<t + LimbBase>> \o SubLimbs(a, b, 1, i + 1)
           ELSE <<t>> \o SubLimbs(a, b, 0, i + 1)

RECURSIVE WrapUSize(_)
\* a six-limb value reduced modulo 2^64
WrapUSize(w) ==
  IF GeLimbs(w, TwoTo64, 6) THEN WrapUSize(SubLimbs(w, TwoTo64, 0, 1))
  ELSE SubSeq(w, 1, 5)

\* the outcomes of `results_per_page * page_num + offset` in usize arithmetic:
\* the exact value when it fits; on overflow a debug build panics and a
\* release build wraps
UsizeMulAdd(page_num, results_per_page, offset) ==
  LET w == MulAddLimbs(page_num, results_per_page, offset, 1)
  IN  IF GeLimbs(w, TwoTo64, 6)
      THEN {[kind |-> "Panic"], [kind |-> "Ok", val |-> WrapUSize(w)]}
      ELSE {[kind |-> "Ok", val |-> SubSeq(w, 1, 5)]}

Pad4(n) ==
  IF n < 10 THEN "000" \o ToString(n)
  ELSE IF n < 100 THEN "00" \o ToString(n)
  ELSE IF n < 1000 THEN "0" \o ToString(n)
  ELSE ToString(n)

RECURSIVE DecLimbs(_, _)
DecLimbs(x, i) ==
  IF i = 1 THEN ToString(x[1])
  ELSE IF x[i] = 0 THEN DecLimbs(x, i - 1)
  ELSE LET RECURSIVE Rest(_)
           Rest(j) == IF j = 0 THEN "" ELSE Pad4(x[j]) \o Rest(j - 1)
       IN  ToString(x[i]) \o Rest(i - 1)

\* Display of a usize: its decimal digits
DisplayUsize(x) == DecLimbs(x, Len(x))

(* ---------------------------------------------------------------------- *)
(* chrono: an instant is a number of minutes since 1970-01-01T00:00Z       *)
(* ---------------------------------------------------------------------- *)

MinutesPerDay == 24 * 60

\* Duration::hours / days / weeks, in minutes
DurationHours(n) == n * 60

DurationDays(n) == n * MinutesPerDay

DurationWeeks(n) == n * 7 * MinutesPerDay

\* signed_duration_since(epoch).num_days()
num_days(t) == t \div MinutesPerDay

\* Datelike::{year, month, day} of an instant (proleptic Gregorian calendar)
CivilFromDays(days) ==
  LET z   == days + 719468
      era == z \div 146097
      doe == z - era * 146097
      yoe == (doe - doe \div 1460 + doe \div 36524 - doe \div 146096) \div 365
      doy == doe - (365 * yoe + yoe \div 4 - yoe \div 100)
      mp  == (5 * doy + 2) \div 153
      d   == doy - (153 * mp + 2) \div 5 + 1
      m   == IF mp < 10 THEN mp + 3 ELSE mp - 9
      y   == yoe + era * 400 + (IF m <= 2 THEN 1 ELSE 0)
  IN  [year |-> y, month |-> m, day |-> d]

year(t) == CivilFromDays(num_days(t)).year

month(t) == CivilFromDays(num_days(t)).month

day(t) == CivilFromDays(num_days(t)).day

\* format!("{:02}", n)
Pad2(n) == IF n < 10 THEN "0" \o ToString(n) ELSE ToString(n)

(* ---------------------------------------------------------------------- *)
(* Strings as token sequences                                              *)
(* ---------------------------------------------------------------------- *)

\* str::starts_with
starts_with(s, prefix) ==
  /\ Len(s) >= Len(prefix)
  /\ SubSeq(s, 1, Len(prefix)) = prefix

\* str::find: the index of the first occurrence of token t in s, or None
find(s, t) ==
  IF \E i \in 1..Len(s) : s[i] = t
  THEN Some(CHOOSE i \in 1..Len(s) : s[i] = t /\ \A j \in 1..(i - 1) : s[j] # t)
  ELSE None

(* ---------------------------------------------------------------------- *)
(* query_parameters::query_params!                                         *)
(* ---------------------------------------------------------------------- *)

\* percent-encoding of one character of a value
EncodeToken(t) ==
  CASE t = "%" -> "%25"
    [] t = "&" -> "%26"
    [] t = "=" -> "%3D"
    [] t = "?" -> "%3F"
    [] t = " " -> "%20"
    [] t = ":" -> "%3A"
    [] OTHER   -> t

PercentEncode(s) == [i \in 1..Len(s) |-> EncodeToken(s[i])]

RECURSIVE JoinPairs(_)
JoinPairs(pairs) ==
  IF pairs = <<>> THEN <<>>
  ELSE LET p == Head(pairs)
           kv == <<p[1], "=">> \o PercentEncode(p[2])
       IN  IF Len(pairs) = 1 THEN kv ELSE kv \o <<"&">> \o JoinPairs(Tail(pairs))

\* query_params! { k => v, ... }: the pairs in the order given, each value
\* percent-encoded, as `k=v` joined by "&"
query_params(pairs) == JoinPairs(pairs)

\* a key mapped to a list of values: one pair per value, in the order given
ListParam(key, values) == [i \in 1..Len(values) |-> <<key, <<values[i]>> >>]

(* ---------------------------------------------------------------------- *)
(* quaero_shared::models::search                                           *)
(* ---------------------------------------------------------------------- *)

SafeSearch == {"Off", "Moderate", "Strict"}

as_lowercase_string(safe_search) ==
  CASE safe_search = "Off"      -> "off"
    [] safe_search = "Moderate" -> "moderate"
    [] safe_search = "Strict"   -> "strict"

as_incrementing_usize(safe_search) ==
  CASE safe_search = "Off"      -> 0
    [] safe_search = "Moderate" -> 1
    [] safe_search = "Strict"   -> 2

as_u8_bool(safe_search) == IF safe_search = "Off" THEN 0 ELSE 1

Abs(n) == IF n < 0 THEN -n ELSE n

RECURSIVE ClosestFrom(_, _, _, _)
\* the scan of the presets from index i, keeping the first preset at the
\* least distance seen so far
ClosestFrom(presets, d, i, best) ==
  IF i > Len(presets) THEN best
  ELSE IF Abs(presets[i][1] - d) < Abs(presets[best][1] - d)
       THEN ClosestFrom(presets, d, i + 1, i)
       ELSE ClosestFrom(presets, d, i + 1, best)

\* DateTimeRange::find_closest_preset: the code of the preset whose duration
\* is closest to end - start, the earlier preset on a tie
find_closest_preset(range, presets) ==
  presets[ClosestFrom(presets, range.end - range.start, 2, 1)][2]

(* ---------------------------------------------------------------------- *)
(* Results of a call                                                       *)
(* ---------------------------------------------------------------------- *)

Ok(v) == [kind |-> "Ok", val |-> v]

Err(e) == [kind |-> "Err", err |-> e]

\* the call aborted (a panic unwinding through the adapter)
Panic == [kind |-> "Panic"]

\* the results f(v) of the outcomes of an arithmetic step; a panic stays one
MapOutcomes(outcomes, f(_)) ==
  {IF o.kind = "Ok" THEN Ok(f(o.val)) ELSE o : o \in outcomes}

(* ---------------------------------------------------------------------- *)
(* bing.rs: BingEngine::url                                                *)
(* ---------------------------------------------------------------------- *)

bing_results_per_page == 10

bing_date_time_range_param(date_time_range) ==
  IF IsSome(date_time_range)
  THEN LET range == date_time_range[1]
           start_timestamp == num_days(range.start)
           end_timestamp == num_days(range.end)
       IN  <<"&", "filters", "=", "ex1", "%3A", "%22", "ez5_",
             ToString(start_timestamp), "_", ToString(end_timestamp), "%22">>
  ELSE <<>>

\* a variant of bing_page_start_idx that counts results from 0
bing_page_start_idx_zero_based(page_num) == UsizeMulAdd(page_num, bing_results_per_page, 0)

bing_page_start_idx(page_num) == UsizeMulAdd(page_num, bing_results_per_page, 1)

bing_url(query, options) ==
  LET Build(page_start_idx) ==
        <<"https://www.bing.com/search", "?">>
        \o query_params(<< <<"q", query>>,
                           <<"first", <<DisplayUsize(page_start_idx)>> >>,
                           <<"form", <<"QBLH">> >>,
                           <<"safeSearch", <<as_lowercase_string(options.safe_search)>> >> >>)
        \o bing_date_time_range_param(options.date_time_range)
  IN  MapOutcomes(bing_page_start_idx(options.page_num), Build)

(* ---------------------------------------------------------------------- *)
(* brave.rs: BraveEngine::url                                              *)
(* ---------------------------------------------------------------------- *)

brave_date_time_range_param(date_time_range) ==
  IF IsSome(date_time_range)
  THEN LET range == date_time_range[1]
           start_range_str == ToString(year(range.start)) \o "-"
                              \o ToString(month(range.start)) \o "-"
                              \o ToString(day(range.start))
           end_range_str == ToString(year(range.end)) \o "-"
                            \o ToString(month(range.end)) \o "-"
                            \o ToString(day(range.end))
       IN  <<"&", "tf", "=", start_range_str \o "to" \o end_range_str>>
  ELSE <<>>

\* a variant of brave_url that may answer with the offset of the first page,
\* as if left over from an earlier call
brave_url_stale_offset(query, options) ==
  {Ok(<<"https://search.brave.com/search", "?">>
      \o query_params(<< <<"q", query>>, <<"offset", <<DisplayUsize(p)>> >> >>)
      \o brave_date_time_range_param(options.date_time_range))
     : p \in {options.page_num, USizeOf(0)}}

brave_url(query, options) ==
  {Ok(<<"https://search.brave.com/search", "?">>
      \o query_params(<< <<"q", query>>,
                         <<"offset", <<DisplayUsize(options.page_num)>> >> >>)
      \o brave_date_time_range_param(options.date_time_range))}

(* ---------------------------------------------------------------------- *)
(* google.rs: GoogleEngine::url                                            *)
(* ---------------------------------------------------------------------- *)

google_results_per_page == 10

\* a variant of google_DATE_TIME_PRESETS listed from the longest preset down
google_DATE_TIME_PRESETS_descending ==
  << <<DurationDays(365), "y">>,
     <<DurationDays(30), "m">>,
     <<DurationWeeks(1), "w">>,
     <<DurationHours(24), "d">>,
     <<DurationHours(1), "h">> >>

google_DATE_TIME_PRESETS ==
  << <<DurationHours(1), "h">>,
     <<DurationHours(24), "d">>,
     <<DurationWeeks(1), "w">>,
     <<DurationDays(30), "m">>,
     <<DurationDays(365), "y">> >>

google_date_time_range_param(date_time_range) ==
  IF IsSome(date_time_range)
  THEN <<"&", "tbs", "=", "qdr", "%3A",
         find_closest_preset(date_time_range[1], google_DATE_TIME_PRESETS)>>
  ELSE <<>>

google_page_start_idx(page_num) == UsizeMulAdd(page_num, google_results_per_page, 0)

google_url(query, options) ==
  LET Build(page_start_idx) ==
        <<"https://www.google.com/search", "?">>
        \o query_params(<< <<"q", query>>,
                           <<"ie", <<"utf8">> >>,
                           <<"start", <<DisplayUsize(page_start_idx)>> >>,
                           <<"filter", <<"0">> >>,
                           <<"safe", <<as_lowercase_string(options.safe_search)>> >> >>)
        \o google_date_time_range_param(options.date_time_range)
  IN  MapOutcomes(google_page_start_idx(options.page_num), Build)

(* ---------------------------------------------------------------------- *)
(* mojeek.rs: MojeekEngine::url                                            *)
(* ---------------------------------------------------------------------- *)

mojeek_RESULTS_PER_PAGE == 10

\* the text appended to the query before it is handed to query_params!; it
\* is written with its percent escapes already in it
mojeek_date_time_range_query_param(date_time_range) ==
  IF IsSome(date_time_range)
  THEN LET range == date_time_range[1]
           start_range_str ==
             <<"since", "%", "3A" \o Pad4(year(range.start))
                                  \o Pad2(month(range.start)) \o Pad2(day(range.start))>>
           end_range_str ==
             <<"before", "%", "3A" \o Pad4(year(range.end))
                                   \o Pad2(month(range.end)) \o Pad2(day(range.end))>>
       IN  <<"%", "20">> \o start_range_str \o <<"%", "20">> \o end_range_str
  ELSE <<>>

mojeek_qss ==
  <<"Bing", "Brave", "DuckDuckGo", "Ecosia", "Google", "Lilo", "Metager",
    "Qwant", "Startpage", "Swisscows", "Yandex", "Yep", "You">>

mojeek_page_start_idx(page_num) == UsizeMulAdd(page_num, mojeek_RESULTS_PER_PAGE, 1)

mojeek_url(query, options) ==
  LET Build(page_start_idx) ==
        <<"https://www.mojeek.com/search", "?">>
        \o query_params(
             << <<"q", query \o mojeek_date_time_range_query_param(options.date_time_range)>>,
                <<"t", <<DisplayUsize(page_start_idx)>> >>,
                <<"safe", <<ToString(as_u8_bool(options.safe_search))>> >>,
                <<"theme", <<"dark">> >>,
                <<"arc", <<"none">> >>,
                <<"date", <<"1">> >>,
                <<"cdate", <<"1">> >>,
                <<"tlen", <<"100">> >>,
                <<"ref", <<"1">> >>,
                <<"hp", <<"minimal">> >>,
                <<"lb", <<"en">> >> >>
             \o ListParam("qss", mojeek_qss))
  IN  MapOutcomes(mojeek_page_start_idx(options.page_num), Build)

(* ---------------------------------------------------------------------- *)
(* yahoo.rs: YahooEngine::url                                              *)
(* ---------------------------------------------------------------------- *)

yahoo_results_per_page == 10

yahoo_DATE_TIME_PRESETS ==
  << <<DurationHours(24), "d">>,
     <<DurationWeeks(1), "w">>,
     <<DurationDays(30), "m">> >>

yahoo_safe_search_param(safe_search) ==
  CASE safe_search = "Off"      -> <<"&", "v", "=", "1">>
    [] safe_search = "Moderate" -> <<"&", "vm", "=", "p">>
    [] safe_search = "Strict"   -> <<"&", "vm", "=", "r">>

yahoo_date_time_range_param(date_time_range) ==
  IF IsSome(date_time_range)
  THEN <<"&", "btf", "=",
         find_closest_preset(date_time_range[1], yahoo_DATE_TIME_PRESETS)>>
  ELSE <<>>

yahoo_page_start_idx(page_num) == UsizeMulAdd(page_num, yahoo_results_per_page, 1)

yahoo_url(query, options) ==
  LET Build(page_start_idx) ==
        <<"https://search.yahoo.com/search", "?">>
        \o query_params(<< <<"p", query>>,
                           <<"b", <<DisplayUsize(page_start_idx)>> >>,
                           <<"nocache", <<"1">> >>,
                           <<"nojs", <<"1">> >> >>)
        \o yahoo_safe_search_param(options.safe_search)
        \o yahoo_date_time_range_param(options.date_time_range)
  IN  MapOutcomes(yahoo_page_start_idx(options.page_num), Build)

(* ---------------------------------------------------------------------- *)
(* yandex.rs: YandexEngine::url                                            *)
(* ---------------------------------------------------------------------- *)

yandex_SEARCH_ID == "3131712"

yandex_date_time_range_params(date_time_range) ==
  IF IsSome(date_time_range)
  THEN LET start == date_time_range[1].start
           end == date_time_range[1].end
       IN  <<"constraintid", "=", "0", "&", "within", "=", "777",
             "&", "from_day", "=", ToString(day(start)),
             "&", "from_month", "=", ToString(month(start)),
             "&", "from_year", "=", ToString(year(start)),
             "&", "to_day", "=", ToString(day(end)),
             "&", "to_month", "=", ToString(month(end)),
             "&", "to_year", "=", ToString(year(end))>>
  ELSE <<>>

\* a variant of yandex_url that refuses every level above Off
yandex_url_refuses_moderate(query, options) ==
  IF as_incrementing_usize(options.safe_search) >= 1
  THEN {Err("SafeSearchRestriction")}
  ELSE {Ok(<<"https://yandex.com/search/site/", "?", "text", "=">>
           \o query_params(<< <<"text", query>>,
                              <<"p", <<DisplayUsize(options.page_num)>> >>,
                              <<"tmpl_version", <<"releases">> >>,
                              <<"web", <<"1">> >>,
                              <<"frame", <<"1">> >>,
                              <<"searchid", <<yandex_SEARCH_ID>> >> >>)
           \o yandex_date_time_range_params(options.date_time_range))}

yandex_url(query, options) ==
  IF as_incrementing_usize(options.safe_search) = 2
  THEN {Err("SafeSearchRestriction")}
  ELSE {Ok(<<"https://yandex.com/search/site/", "?", "text", "=">>
           \o query_params(<< <<"text", query>>,
                              <<"p", <<DisplayUsize(options.page_num)>> >>,
                              <<"tmpl_version", <<"releases">> >>,
                              <<"web", <<"1">> >>,
                              <<"frame", <<"1">> >>,
                              <<"searchid", <<yandex_SEARCH_ID>> >> >>)
           \o yandex_date_time_range_params(options.date_time_range))}

(* ---------------------------------------------------------------------- *)
(* lib.rs: the adapters, and Engine::url dispatched on the adapter         *)
(* ---------------------------------------------------------------------- *)

Engines == {"bing", "brave", "google", "mojeek", "yahoo", "yandex"}

url(engine, query, options) ==
  CASE engine = "bing"   -> bing_url(query, options)
    [] engine = "brave"  -> brave_url(query, options)
    [] engine = "google" -> google_url(query, options)
    [] engine = "mojeek" -> mojeek_url(query, options)
    [] engine = "yahoo"  -> yahoo_url(query, options)
    [] engine = "yandex" -> yandex_url(query, options)

(* ---------------------------------------------------------------------- *)
(* The calls an orchestrator makes, and their arguments                    *)
(* ---------------------------------------------------------------------- *)

\* the characters a query text is made of: a plain one and two that must be
\* percent-encoded
QueryChars == {"a", "&", "%"}

Queries == UNION {[1..n -> QueryChars] : n \in 0..MaxQueryLen}

\* page numbers where the usize arithmetic of the start index is at its
\* limit: the largest page whose 10 * p + 1 fits in 64 bits
\* (1844674407370955161), the page after it, and usize::MAX
LimitPages ==
  {<<5161, 7095, 4073, 4674, 184>>,
   <<5162, 7095, 4073, 4674, 184>>,
   <<1615, 955, 737, 6744, 1844>>}

\* page_num: usize
Pages == {USizeOf(p) : p \in 0..MaxPage} \cup LimitPages

\* 2024-01-05T00:00Z and 2024-02-28T13:30Z
StartInstants == {19727 * MinutesPerDay, 19781 * MinutesPerDay + 810}

\* lengths of a date range, in minutes: the presets themselves, the
\* midpoints between neighbouring presets and their neighbours, and lengths
\* below the least and above the greatest preset
SampleDurations ==
  {0, 60, 749, 750, 751, 1440, 5760, 10080, 26640, 26641, 43200, 284400, 525600, 600000}

DateTimeRanges ==
  {None} \cup {Some([start |-> s, end |-> s + d]) : s \in StartInstants, d \in SampleDurations}

SearchOptions == [page_num : Pages, safe_search : SafeSearch, date_time_range : DateTimeRanges]

Idle == [op |-> "idle"]

Init ==
  /\ call = Idle
  /\ ret = Idle

\* one call of Engine::url
UrlCall ==
  /\ call = Idle
  /\ \E engine \in Engines, query \in Queries, options \in SearchOptions :
       \E out \in url(engine, query, options) :
         /\ call' = [op |-> "url", engine |-> engine, query |-> query, options |-> options]
         /\ ret' = out

\* the call has returned and its result has been taken; nothing of it is kept
Return ==
  /\ call # Idle
  /\ call' = Idle
  /\ ret' = Idle

SpecUrl == Init /\ [][UrlCall \/ Return]_vars

(* ---------------------------------------------------------------------- *)
(* Reading a URL back: its query part as `key=value` pairs                 *)
(* ---------------------------------------------------------------------- *)

\* the tokens after the first "?"
QueryPart(u) ==
  IF IsSome(find(u, "?")) THEN SubSeq(u, find(u, "?")[1] + 1, Len(u)) ELSE <<>>

RECURSIVE Split(_, _)
\* the pieces of s between the occurrences of sep
Split(s, sep) ==
  IF IsSome(find(s, sep))
  THEN <<SubSeq(s, 1, find(s, sep)[1] - 1)>>
       \o Split(SubSeq(s, find(s, sep)[1] + 1, Len(s)), sep)
  ELSE <<s>>

Segments(u) == Split(QueryPart(u), "&")

Structural == {"?", "&", "=", "%"}

\* a piece is `key=value`: a key, one "=", and a value free of raw
\* structural characters
IsPair(seg) ==
  /\ Len(seg) >= 2
  /\ seg[1] \notin Structural
  /\ seg[2] = "="
  /\ \A i \in 3..Len(seg) : seg[i] \notin Structural

\* the values the key has in the URL, in order, for the pieces that are pairs
ValuesOf(u, key) ==
  LET segs == Segments(u)
      Sel(seg) == IsPair(seg) /\ seg[1] = key
  IN  [i \in 1..Len(SelectSeq(segs, Sel)) |->
         SubSeq(SelectSeq(segs, Sel)[i], 3, Len(SelectSeq(segs, Sel)[i]))]

\* a page number of the model as a number, when it is a small one
PageOf(page_num) == page_num[1] + page_num[2] * LimbBase

\* the decimal digits of 10 * page_num + offset, computed without a width
ExactStartIdx(page_num, offset) == DecLimbs(MulAddLimbs(page_num, 10, offset, 1), 6)

UrlReturned == call.op = "url" /\ ret.kind = "Ok"

(* ---------------------------------------------------------------------- *)
(* Claims about Engine::url                                                *)
(* ---------------------------------------------------------------------- *)

\* the key that carries the index of the first result
StartKey(engine) ==
  CASE engine = "bing"   -> "first"
    [] engine = "mojeek" -> "t"
    [] engine = "yahoo"  -> "b"
    [] engine = "google" -> "start"

\* C3: for every page number p, url() of a provider with 1-based offsets
\* (Bing `first`, Mojeek `t`, Yahoo `b`) returns a URL whose start index is
\* 10 * p + 1, and url() of the 0-based provider (Google `start`) returns
\* one whose start index is 10 * p.
C3_Pagination ==
  (call.op = "url" /\ call.engine \in {"bing", "mojeek", "yahoo", "google"}) =>
    /\ ret.kind = "Ok"
    /\ ValuesOf(ret.val, StartKey(call.engine)) =
         << <<ExactStartIdx(call.options.page_num,
                            IF call.engine = "google" THEN 0 ELSE 1)>> >>

C3_Witness ==
  /\ UrlReturned
  /\ call.engine = "bing"
  /\ call.options.page_num = USizeOf(2)
  /\ ValuesOf(ret.val, "first") = << <<"21">> >>

\* C4: url() returns an error exactly when the provider is Yandex and the
\* safe-search level is Strict, the error is SafeSearchRestriction, and
\* every other call returns a URL.
C4_OnlyYandexStrictFails ==
  call.op = "url" =>
    IF call.engine = "yandex" /\ call.options.safe_search = "Strict"
    THEN ret = Err("SafeSearchRestriction")
    ELSE ret.kind = "Ok"

C4_Witness ==
  /\ call.op = "url"
  /\ call.engine = "yandex"
  /\ call.options.safe_search = "Strict"
  /\ ret = Err("SafeSearchRestriction")

\* C6: for every call of url() that returns a URL, its query part is a
\* sequence of key=value pairs, each separated from the next by exactly one
\* "&" (the date-range parameters included), and (shown here for the calls
\* without a date range) the query text is the value of exactly one key.
C6_ValidQueryString ==
  UrlReturned =>
    /\ \A i \in 1..Len(Segments(ret.val)) : IsPair(Segments(ret.val)[i])
    /\ call.options.date_time_range = None =>
         Cardinality({i \in 1..Len(Segments(ret.val)) :
                        /\ IsPair(Segments(ret.val)[i])
                        /\ SubSeq(Segments(ret.val)[i], 3, Len(Segments(ret.val)[i]))
                             = PercentEncode(call.query)}) = 1

\* the presets the claim names, as <<minutes, code>>
C10_Presets(engine) ==
  IF engine = "google"
  THEN {<<60, "h">>, <<1440, "d">>, <<10080, "w">>, <<43200, "m">>, <<525600, "y">>}
  ELSE {<<1440, "d">>, <<10080, "w">>, <<43200, "m">>}

\* the code emitted for the date range
C10_Emitted ==
  IF call.engine = "google"
  THEN LET v == ValuesOf(ret.val, "tbs") IN IF Len(v) = 1 /\ Len(v[1]) = 3 THEN v[1][3] ELSE ""
  ELSE LET v == ValuesOf(ret.val, "btf") IN IF Len(v) = 1 /\ Len(v[1]) = 1 THEN v[1][1] ELSE ""

\* C10: for Google and Yahoo the date-range parameter of the URL is the code
\* of the preset whose duration is closest to end - start; of two presets
\* equally close the smaller is chosen; the choice is a function of the
\* duration alone.
C10_ClosestPreset ==
  (UrlReturned /\ call.engine \in {"google", "yahoo"}
     /\ call.options.date_time_range # None) =>
    LET d == call.options.date_time_range[1].end - call.options.date_time_range[1].start
    IN  \E p \in C10_Presets(call.engine) :
          /\ p[2] = C10_Emitted
          /\ \A q \in C10_Presets(call.engine) :
               \/ Abs(p[1] - d) < Abs(q[1] - d)
               \/ Abs(p[1] - d) = Abs(q[1] - d) /\ p[1] <= q[1]

\* a range of 12 h 30 min, as far from one hour as from one day: Google emits `h`
C10_Witness ==
  /\ UrlReturned
  /\ call.engine = "google"
  /\ call.options.date_time_range # None
  /\ call.options.date_time_range[1].end - call.options.date_time_range[1].start = 750
  /\ C10_Emitted = "h"

\* C18: for every page number a usize holds, the start index url() computes
\* (10 * page_num + 1 for Bing, Mojeek and Yahoo, 10 * page_num for Google)
\* does not overflow or wrap: url() does not abort, and the index in the
\* URL is the mathematical value.
C18_NoOverflow ==
  (call.op = "url" /\ call.engine \in {"bing", "mojeek", "yahoo", "google"}) =>
    LET offset == IF call.engine = "google" THEN 0 ELSE 1
    IN  /\ ret # Panic
        /\ Panic \notin UsizeMulAdd(call.options.page_num, 10, offset)
        /\ ret.kind = "Ok" =>
             \A i \in 1..Len(Segments(ret.val)) :
               LET seg == Segments(ret.val)[i]
               IN  (IsPair(seg) /\ seg[1] = StartKey(call.engine)) =>
                     SubSeq(seg, 3, Len(seg)) = <<ExactStartIdx(call.options.page_num, offset)>>

\* percent-decoding of one token of a value, applied once
DecodeToken(t) ==
  CASE t = "%25" -> "%"
    [] t = "%26" -> "&"
    [] t = "%3D" -> "="
    [] t = "%3F" -> "?"
    [] t = "%20" -> " "
    [] t = "%3A" -> ":"
    [] OTHER     -> t

RECURSIVE DecodedText(_)
\* the text a value decodes to, decoded once
DecodedText(value) ==
  IF value = <<>> THEN "" ELSE DecodeToken(Head(value)) \o DecodedText(Tail(value))

RECURSIVE TextOf(_)
\* a token sequence as plain text
TextOf(tokens) == IF tokens = <<>> THEN "" ELSE Head(tokens) \o TextOf(Tail(tokens))

\* YYYYMMDD of an instant, zero-padded
Ymd(t) == Pad4(year(t)) \o Pad2(month(t)) \o Pad2(day(t))

\* C14: in the URL Mojeek's url() returns for a date range, the value of
\* `q` is percent-encoded once: decoded once it is the query text followed
\* by " since:YYYYMMDD before:YYYYMMDD", with no escape left in it.
C14_MojeekEncodedOnce ==
  (UrlReturned /\ call.engine = "mojeek" /\ call.options.date_time_range # None) =>
    LET range == call.options.date_time_range[1]
        v == ValuesOf(ret.val, "q")
    IN  /\ Len(v) = 1
        /\ DecodedText(v[1]) =
             TextOf(call.query) \o " since:" \o Ymd(range.start)
                                \o " before:" \o Ymd(range.end)

(* ---------------------------------------------------------------------- *)
(* Engine::validate_response                                               *)
(* ---------------------------------------------------------------------- *)

\* a variant of google_validate_response that looks at the path only
google_validate_response_path_only(response) ==
  IF starts_with(response.url.path, <<"/sorry">>) THEN Err("Captcha") ELSE Ok(<<>>)

\* google.rs: the response's final URL is on the "sorry" host or path
google_validate_response(response) ==
  LET was_captcha_gated ==
        \/ response.url.host = "sorry.google.com"
        \/ starts_with(response.url.path, <<"/sorry">>)
  IN  IF was_captcha_gated THEN Err("Captcha") ELSE Ok(<<>>)

\* yandex.rs
yandex_validate_response(response) ==
  IF starts_with(response.url.path, <<"/showcaptcha">>)
  THEN Err("Captcha")
  ELSE Ok(<<>>)

\* the Engine trait's own validate_response, kept by the other four adapters
default_validate_response(response) == Ok(<<>>)

validate_response(engine, response) ==
  CASE engine = "google" -> google_validate_response(response)
    [] engine = "yandex" -> yandex_validate_response(response)
    [] OTHER             -> default_validate_response(response)

Hosts == {"www.google.com", "sorry.google.com", "yandex.com", "search.brave.com"}

\* paths; a path that begins with "/sorry" or "/showcaptcha" has that
\* beginning as its first token
Paths ==
  {<<"/search">>, <<"/sorry">>, <<"/sorry", "/index">>, <<"/sorry", "page">>,
   <<"/showcaptcha">>, <<"/showcaptcha", "/x">>, <<"/search", "/sorry">>}

Locations == [host : Hosts, path : Paths]

\* a response: the URL that was requested and the URL it was finally served from
Responses == [requested : Locations, url : Locations]

ValidateCall ==
  /\ call = Idle
  /\ \E engine \in Engines, response \in Responses :
       /\ call' = [op |-> "validate_response", engine |-> engine, response |-> response]
       /\ ret' = validate_response(engine, response)

SpecValidate == Init /\ [][ValidateCall \/ Return]_vars

\* C5: validate_response decides on the final URL of the response alone:
\* Google answers Captcha exactly when the final host is sorry.google.com or
\* the final path starts with /sorry, Yandex exactly when the final path
\* starts with /showcaptcha, and every other response is accepted.
C5_CaptchaOnFinalUrl ==
  call.op = "validate_response" =>
    LET final == call.response.url
        gated ==
          \/ call.engine = "google"
               /\ (final.host = "sorry.google.com" \/ final.path[1] = "/sorry")
          \/ call.engine = "yandex" /\ final.path[1] = "/showcaptcha"
    IN  ret = IF gated THEN Err("Captcha") ELSE Ok(<<>>)

\* Google, redirected from an ordinary search URL to the sorry host
C5_Witness ==
  /\ call.op = "validate_response"
  /\ call.engine = "google"
  /\ call.response.requested = [host |-> "www.google.com", path |-> <<"/search">>]
  /\ call.response.url = [host |-> "sorry.google.com", path |-> <<"/search">>]
  /\ ret = Err("Captcha")

(* ---------------------------------------------------------------------- *)
(* Engine::headers                                                         *)
(*                                                                         *)
(* A HeaderMap maps each header name to the sequence of its values.        *)
(* ---------------------------------------------------------------------- *)

HeaderNames == {"user-agent", "accept", "content-type", "cookie", "referer"}

\* HeaderMap::insert: the value replaces every value the name had
insert(headers_, name, value) == [headers_ EXCEPT ![name] = <<value>>]

\* HeaderMap::append: the value is added after the values the name has
append(headers_, name, value) == [headers_ EXCEPT ![name] = @ \o <<value>>]

\* the pool UserAgent::random_no_js() draws from
UserAgent_random_no_js == {"UA-1", "UA-2"}

\* the pool UserAgent::random() draws from
UserAgent_random == {"UA-1", "UA-2", "UA-3"}

bing_headers(headers_, options) ==
  {LET h1 == insert(headers_, "user-agent", ua)
       h2 == insert(h1, "accept", "text/html,application/xhtml+xml,application/xml;q=0.9,*/*;q=0.8")
       h3 == append(h2, "content-type", "application/x-www-form-urlencoded")
       h4 == append(h3, "cookie", "_EDGE_V=1; SRCHD=AF=NOFORM; _Rwho=u=d; bngps=s=0; _UR=QS=0&TQS=0; ")
   IN  append(h4, "referer", "https://google.com/")
     : ua \in UserAgent_random_no_js}

brave_headers(headers_, options) ==
  {LET safe_search == as_lowercase_string(options.safe_search)
       h1 == insert(headers_, "user-agent", ua)
       h2 == insert(h1, "accept", "*/*")
       h3 == append(h2, "content-type", "application/x-www-form-urlencoded")
       h4 == append(h3, "cookie", "safe_search=" \o safe_search)
   IN  append(h4, "referer", "https://google.com/")
     : ua \in UserAgent_random_no_js}

\* a variant of google_headers that sends no cookie
google_headers_no_cookie(headers_, options) ==
  {LET h1 == insert(headers_, "user-agent", ua)
       h2 == insert(h1, "accept", "text/html,application/xhtml+xml,application/xml;q=0.9,*/*;q=0.8")
   IN  append(h2, "referer", "https://google.com/")
     : ua \in UserAgent_random_no_js}

google_headers(headers_, options) ==
  {LET h1 == insert(headers_, "user-agent", ua)
       h2 == insert(h1, "accept", "text/html,application/xhtml+xml,application/xml;q=0.9,*/*;q=0.8")
       h3 == append(h2, "cookie", "SOCS=CAESHAgBEhIaAB")
   IN  append(h3, "referer", "https://google.com/")
     : ua \in UserAgent_random_no_js}

mojeek_headers(headers_, options) ==
  {LET h1 == insert(headers_, "user-agent", ua)
       h2 == insert(h1, "accept", "text/html,application/xhtml+xml,application/xml;q=0.9,*/*;q=0.8")
   IN  append(h2, "referer", "https://google.com/")
     : ua \in UserAgent_random_no_js}

yahoo_headers(headers_, options) ==
  {LET h1 == insert(headers_, "user-agent", ua)
       h2 == insert(h1, "accept", "application/x-www-form-urlencoded")
   IN  append(h2, "referer", "https://google.com/")
     : ua \in UserAgent_random_no_js}

yandex_headers(headers_, options) ==
  {LET h1 == insert(headers_, "user-agent", ua)
       h2 == insert(h1, "accept", "application/x-www-form-urlencoded")
   IN  append(h2, "referer", "https://google.com/")
     : ua \in UserAgent_random}

\* Engine::headers: the maps the call can leave, one per user agent drawn
headers(engine, headers_, options) ==
  CASE engine = "bing"   -> bing_headers(headers_, options)
    [] engine = "brave"  -> brave_headers(headers_, options)
    [] engine = "google" -> google_headers(headers_, options)
    [] engine = "mojeek" -> mojeek_headers(headers_, options)
    [] engine = "yahoo"  -> yahoo_headers(headers_, options)
    [] engine = "yandex" -> yandex_headers(headers_, options)

\* HeaderMap::new()
EmptyHeaders == [name \in HeaderNames |-> <<>>]

\* the maps headers() is handed: the empty one, and maps that already hold
\* a user agent, a cookie or a referer
HeaderMaps ==
  {[EmptyHeaders EXCEPT !["user-agent"] = u, !["cookie"] = c, !["referer"] = r] :
     u \in {<<>>, <<"UA-0">>}, c \in {<<>>, <<"session=1">>}, r \in {<<>>, <<"https://example.org/">>}}

\* headers() reads safe_search alone; the page and the date range are held
\* at the first page and no range
HeaderOptions ==
  {o \in SearchOptions : o.page_num = USizeOf(0) /\ o.date_time_range = None}

\* one call of Engine::headers; what it returns is the map it has written to
HeadersCall ==
  /\ call = Idle
  /\ \E engine \in Engines, headers_ \in HeaderMaps, options \in HeaderOptions :
       \E out \in headers(engine, headers_, options) :
         /\ call' = [op |-> "headers", engine |-> engine, headers |-> headers_,
                     options |-> options]
         /\ ret' = out

SpecHeaders == Init /\ [][HeadersCall \/ Return]_vars

\* the adapters whose headers() adds a Cookie value to the map of the call
CookieAdapters ==
  {e \in Engines :
     \A out \in headers(e, call.headers, call.options) :
       Len(out["cookie"]) = Len(call.headers["cookie"]) + 1}

\* on an empty map the call leaves one User-Agent and the fixed Referer
OneUserAgentFixedReferer ==
  call.headers = EmptyHeaders =>
    /\ Len(ret["user-agent"]) = 1
    /\ ret["referer"] = <<"https://google.com/">>

\* C12 as stated: exactly two of the six adapters add a Cookie header and
\* the other four add none; every header set built on an empty map carries
\* one User-Agent and the Referer "https://google.com/".
C12_TwoCookieAdapters ==
  call.op = "headers" =>
    /\ Cardinality(CookieAdapters) = 2
    /\ call.engine \notin CookieAdapters => ret["cookie"] = call.headers["cookie"]
    /\ OneUserAgentFixedReferer

\* C12, amended: exactly three of the six adapters (Bing, Brave and Google)
\* add a Cookie header, one value each, and Mojeek, Yahoo and Yandex add
\* none; every header set built on an empty map carries one User-Agent and
\* the Referer "https://google.com/".
C12_ThreeCookieAdapters ==
  call.op = "headers" =>
    /\ CookieAdapters = {"bing", "brave", "google"}
    /\ Len(ret["cookie"]) = Len(call.headers["cookie"])
                              + (IF call.engine \in {"bing", "brave", "google"} THEN 1 ELSE 0)
    /\ call.engine \notin {"bing", "brave", "google"} => ret["cookie"] = call.headers["cookie"]
    /\ OneUserAgentFixedReferer

\* Google on an empty map: its consent cookie is the one Cookie value
C12_Witness ==
  /\ call.op = "headers"
  /\ call.engine = "google"
  /\ call.headers = EmptyHeaders
  /\ ret["cookie"] = <<"SOCS=CAESHAgBEhIaAB">>
  /\ Len(ret["user-agent"]) = 1
  /\ ret["referer"] = <<"https://google.com/">>

(* ---------------------------------------------------------------------- *)
(* The parsed document, as the adapters query it                           *)
(*                                                                         *)
(* A document is [container, banner, nodes]: whether the results container *)
(* the adapter scopes to is in it, whether (Brave) the container holds the *)
(* node with id "bad-results-info-banner", and the candidate result nodes  *)
(* in document order (those the adapter's candidate selector matches).     *)
(* A candidate node is a record:                                           *)
(*   classes    its further class names                                    *)
(*   id         its id attribute (Option)                                  *)
(*   data_type  its data-type attribute (Option)                           *)
(*   wrapper    the element the title is looked up in exists               *)
(*              (Brave: the first <a>; Mojeek: the <h2> child)             *)
(*   title      the title-class node exists                                *)
(*   text       the title's text (Option)                                  *)
(*   link       the <a> inside the title node exists (Bing, Google)        *)
(*   href       the anchor's href attribute (Option)                       *)
(*   summary    the primary summary path, an Option per node on the path   *)
(*              and the text last                                          *)
(*   fallback   the second summary path (Bing: the text of each `exsni`    *)
(*              child of the card wrapper; Brave: the `inline-qa-answer`   *)
(*              node's text), an Option                                    *)
(* ---------------------------------------------------------------------- *)

Drop == [kind |-> "Drop"]

Keep(v) == [kind |-> "Keep", val |-> v]

RECURSIVE Join(_, _)
\* the pieces joined by sep
Join(pieces, sep) ==
  IF pieces = <<>> THEN <<>>
  ELSE IF Len(pieces) = 1 THEN pieces[1]
  ELSE pieces[1] \o <<sep>> \o Join(Tail(pieces), sep)

\* SanitizedUrl::new: the URL without the query parameters the filter flags;
\* a URL with no query part is returned as it is
SanitizedUrl_new(url_, filter(_, _)) ==
  IF find(url_, "?") = None THEN url_
  ELSE LET q    == find(url_, "?")[1]
           base == SubSeq(url_, 1, q - 1)
           Kept(seg) == ~(Len(seg) >= 2 /\ seg[2] = "="
                          /\ filter(seg[1], SubSeq(seg, 3, Len(seg))))
           kept == SelectSeq(Split(SubSeq(url_, q + 1, Len(url_)), "&"), Kept)
       IN  IF kept = <<>> THEN base ELSE base \o <<"?">> \o Join(kept, "&")

\* the keys that start with "utm"
UtmKeys == {"utm", "utm_source", "utm_medium"}

\* the filter SearchResult::new sanitizes with
default_filter(key, value) == key \in UtmKeys

SearchResult_new_from_sanitized_url(title, sanitized_url, summary) ==
  [title |-> title, url |-> sanitized_url, summary |-> summary]

\* SearchResult::new: the result with its URL sanitized
SearchResult_new(title, url_, summary) ==
  SearchResult_new_from_sanitized_url(title, SanitizedUrl_new(url_, default_filter), summary)

\* Iterator::filter(keep).filter_map(extract).collect(): the results of the
\* nodes kept, in the order of the nodes, each with the position of the node
\* it came from; a panic in extract aborts the call
FilterMapCollect(nodes, keep(_), extract(_)) ==
  LET Kept(i) == keep(nodes[i])
      kept == SelectSeq([i \in 1..Len(nodes) |-> i], Kept)
      Yields(i) == extract(nodes[i]).kind = "Keep"
      yielding == SelectSeq(kept, Yields)
  IN  IF \E k \in 1..Len(kept) : extract(nodes[kept[k]]).kind = "Panic"
      THEN Panic
      ELSE Ok([k \in 1..Len(yielding) |->
                 [src |-> yielding[k]] @@ extract(nodes[yielding[k]]).val])

KeepAll(node) == TRUE

\* Option::and_then down a path of nodes: None as soon as a node is missing
Depth2(o) == IF IsSome(o) THEN o[1] ELSE None

Depth3(o) == Depth2(Depth2(o))

(* ---------------------------------------------------------------------- *)
(* bing.rs: BingEngine::parse                                              *)
(* ---------------------------------------------------------------------- *)

\* str::strip_prefix(p).unwrap_or(s)
strip_prefix_or_self(s, prefix) ==
  IF starts_with(s, prefix) THEN SubSeq(s, Len(prefix) + 1, Len(s)) ELSE s

\* a variant of bing_summary that falls back to the first `exsni` child
bing_summary_first_card(this) ==
  LET text_summary == Depth3(this.summary)
  IN  IF IsSome(text_summary)
      THEN strip_prefix_or_self(text_summary[1], <<"U+00A0 U+00B7 U+0020">>)
      ELSE IF IsSome(this.fallback) /\ Len(this.fallback[1]) >= 1
           THEN unwrap_or_default(this.fallback[1][1])
           ELSE <<>>

bing_summary(this) ==
  LET text_summary == Depth3(this.summary)
  IN  IF IsSome(text_summary)
      THEN strip_prefix_or_self(text_summary[1], <<"U+00A0 U+00B7 U+0020">>)
      ELSE IF IsSome(this.fallback) /\ Len(this.fallback[1]) >= 2
           THEN unwrap_or_default(this.fallback[1][2])
           ELSE <<>>

bing_extract(this) ==
  IF ~this.title THEN Drop
  ELSE Keep(SearchResult_new(
              unwrap_or_default(this.text),
              IF this.link THEN unwrap_or_default(this.href) ELSE <<>>,
              bing_summary(this)))

RECURSIVE Reverse(_)
Reverse(q) == IF q = <<>> THEN <<>> ELSE Reverse(Tail(q)) \o <<Head(q)>>

\* a variant of bing_parse that collects the results last card first
bing_parse_reversed(dom) ==
  Ok(Reverse(FilterMapCollect(dom.nodes, KeepAll, bing_extract).val))

bing_parse(dom) == FilterMapCollect(dom.nodes, KeepAll, bing_extract)

(* ---------------------------------------------------------------------- *)
(* brave.rs: BraveEngine::parse                                            *)
(* ---------------------------------------------------------------------- *)

brave_SEARCH_RESULT_BLOCKLISTED_CLASSES == {"noscript-hide", "standalone"}

brave_keep(this) ==
  /\ ~(IsSome(this.data_type) /\ this.data_type[1] # "web")
  /\ this.classes \cap brave_SEARCH_RESULT_BLOCKLISTED_CLASSES = {}
  /\ ~(IsSome(this.id) /\ (this.id[1] = "search_anywhere" \/ this.id[1] = "search-ad"))

\* str::trim_start
trim_start(s) == IF s # <<>> /\ s[1] = " " THEN Tail(s) ELSE s

brave_summary(this) ==
  LET content == Depth2(this.summary)
  IN  IF IsSome(content) THEN trim_start(content[1])
      ELSE unwrap_or_default(Depth2(this.fallback))

brave_extract(this) ==
  Keep(SearchResult_new(
         IF this.wrapper /\ this.title THEN unwrap_or_default(this.text) ELSE <<>>,
         IF this.wrapper THEN unwrap_or_default(this.href) ELSE <<>>,
         brave_summary(this)))

brave_parse(dom) ==
  IF ~dom.container THEN Err("NoResultsFound")
  ELSE IF dom.banner THEN Err("NoResultsFound")
  ELSE FilterMapCollect(dom.nodes, brave_keep, brave_extract)

(* ---------------------------------------------------------------------- *)
(* google.rs: GoogleEngine::parse                                          *)
(* ---------------------------------------------------------------------- *)

google_filter_search_param_in_result_url(key, value) ==
  key = "ved" \/ key = "sa" \/ key = "usg" \/ key \in UtmKeys

\* a variant of google_unwrap that leaves the redirect prefix on
google_unwrap_keeps_prefix(href) == href

\* href.strip_prefix("/url?q=").unwrap_or(href)
google_unwrap(href) == strip_prefix_or_self(href, <<"/url", "?", "q", "=">>)

google_extract(this) ==
  IF ~this.title THEN Drop
  ELSE LET title == unwrap_or_default(this.text)
           url_ == IF this.link /\ IsSome(this.href) THEN google_unwrap(this.href[1]) ELSE <<>>
           summary == unwrap_or_default(Depth3(this.summary))
           sanitized_url == SanitizedUrl_new(url_, google_filter_search_param_in_result_url)
       IN  Keep(SearchResult_new_from_sanitized_url(title, sanitized_url, summary))

google_parse(dom) == FilterMapCollect(dom.nodes, KeepAll, google_extract)

(* ---------------------------------------------------------------------- *)
(* mojeek.rs: MojeekEngine::parse                                          *)
(* ---------------------------------------------------------------------- *)

mojeek_extract(this) ==
  IF ~this.wrapper THEN Drop
  ELSE IF ~this.title THEN Drop
  ELSE Keep(SearchResult_new(
              unwrap_or_default(this.text),
              unwrap_or_default(this.href),
              unwrap_or_default(Depth2(this.summary))))

mojeek_parse(dom) ==
  IF ~dom.container THEN Err("NoResultsFound")
  ELSE FilterMapCollect(dom.nodes, KeepAll, mojeek_extract)

(* ---------------------------------------------------------------------- *)
(* yahoo.rs: YahooEngine::parse                                            *)
(* ---------------------------------------------------------------------- *)

yahoo_SEARCH_RESULT_BLOCKLISTED_CLASSES == {"AlsoTry_M"}

yahoo_keep(this) == this.classes \cap yahoo_SEARCH_RESULT_BLOCKLISTED_CLASSES = {}

\* clean_url: the text between the first "RU=" and the first "RK=2"; the
\* slice [start_idx + 3 ..= end_idx - 1] panics when "RK=2" comes first
clean_url(input_url) ==
  LET start_idx == find(input_url, "RU=")
      end_idx == find(input_url, "RK=2")
  IN  IF start_idx = None THEN Ok(input_url)
      ELSE IF end_idx = None THEN Ok(input_url)
      ELSE IF end_idx[1] < start_idx[1] THEN Panic
      ELSE Ok(SubSeq(input_url, start_idx[1] + 1, end_idx[1] - 1))

yahoo_extract(this) ==
  IF ~this.title THEN Drop
  ELSE LET cleaned == IF IsSome(this.href) THEN clean_url(this.href[1]) ELSE Ok(<<>>)
       IN  IF cleaned.kind = "Panic" THEN Panic
           ELSE Keep(SearchResult_new(
                       unwrap_or_default(this.text),
                       cleaned.val,
                       unwrap_or_default(Depth2(this.summary))))

yahoo_parse(dom) ==
  IF ~dom.container THEN Err("NoResultsFound")
  ELSE FilterMapCollect(dom.nodes, yahoo_keep, yahoo_extract)

(* ---------------------------------------------------------------------- *)
(* yandex.rs: YandexEngine::parse                                          *)
(* ---------------------------------------------------------------------- *)

yandex_extract(this) ==
  IF ~this.title THEN Drop
  ELSE Keep(SearchResult_new(
              unwrap_or_default(this.text),
              unwrap_or_default(this.href),
              unwrap_or_default(Depth2(this.summary))))

yandex_parse(dom) ==
  IF ~dom.container THEN Err("NoResultsFound")
  ELSE FilterMapCollect(dom.nodes, KeepAll, yandex_extract)

parse(engine, dom) ==
  CASE engine = "bing"   -> bing_parse(dom)
    [] engine = "brave"  -> brave_parse(dom)
    [] engine = "google" -> google_parse(dom)
    [] engine = "mojeek" -> mojeek_parse(dom)
    [] engine = "yahoo"  -> yahoo_parse(dom)
    [] engine = "yandex" -> yandex_parse(dom)

(* ---------------------------------------------------------------------- *)
(* The documents Engine::parse is called with                              *)
(* ---------------------------------------------------------------------- *)

PlainUrl == <<"https://a.example/">>

TrackedUrl ==
  <<"https://b.example/p", "?", "x", "=", "1", "&", "utm_source", "=", "n", "&", "ved", "=", "2">>

\* the link targets a provider's result pages carry
Hrefs(engine) ==
  {PlainUrl, TrackedUrl}
  \cup (IF engine = "google"
        THEN {<<"/url", "?", "q", "=">> \o TrackedUrl,
              <<"/url", "?", "q", "=", "/url", "?", "q", "=">> \o PlainUrl}
        ELSE {})
  \cup (IF engine = "yahoo"
        THEN {<<"https://r.search.yahoo.com/", "RU=", "https%3a%2f%2fa.example%2f", "/", "RK=2", "/RS=x">>,
              <<"https://r.search.yahoo.com/", "RK=2", "/", "RU=", "x">>,
              <<"https://r.search.yahoo.com/", "RU=", "x">>}
        ELSE {})

\* the primary summary path with every node on it present and a text
FullSummary(engine, text) ==
  IF engine \in {"bing", "google"} THEN Some(Some(Some(text))) ELSE Some(Some(text))

\* the shapes of the primary summary path
Summaries(engine) ==
  {None, Some(None), FullSummary(engine, <<"S1">>),
   FullSummary(engine, <<" ", "S2">>), FullSummary(engine, <<"U+00A0 U+00B7 U+0020", "S3">>)}
  \cup (IF engine \in {"bing", "google"} THEN {Some(Some(None))} ELSE {})

\* the shapes of the second summary path
Fallbacks(engine) ==
  CASE engine = "bing" ->
         {None, Some(<<>>), Some(<<Some(<<"C1">>)>>),
          Some(<<Some(<<"C1">>), Some(<<"C2">>)>>), Some(<<Some(<<"C1">>), None>>)}
    [] engine = "brave" -> {None, Some(None), Some(Some(<<"Q1">>))}
    [] OTHER -> {None}

\* a well-formed organic result card
WellFormed(engine) ==
  [classes   |-> {},
   id        |-> None,
   data_type |-> IF engine = "brave" THEN Some("web") ELSE None,
   wrapper   |-> TRUE,
   title     |-> TRUE,
   text      |-> Some(<<"T1">>),
   link      |-> TRUE,
   href      |-> Some(PlainUrl),
   summary   |-> FullSummary(engine, <<"S1">>),
   fallback  |-> None]

\* the markings of provider chrome and of cards that are not web results
ChromeNodes(engine) ==
  CASE engine = "brave" ->
         {[WellFormed(engine) EXCEPT !.data_type = d, !.id = i] :
            d \in {None, Some("web"), Some("video")},
            i \in {None, Some("search-elsewhere"), Some("search_anywhere"), Some("search-ad")}}
         \cup {[WellFormed(engine) EXCEPT !.classes = c] :
                 c \in {{"noscript-hide"}, {"standalone"}, {"card"}}}
    [] engine = "yahoo" ->
         {[WellFormed(engine) EXCEPT !.classes = c] : c \in {{"AlsoTry_M"}, {"first"}}}
    [] OTHER -> {}

\* cards with a part of the title missing
TitleNodes(engine) ==
  {[WellFormed(engine) EXCEPT !.title = FALSE],
   [WellFormed(engine) EXCEPT !.text = None],
   [WellFormed(engine) EXCEPT !.text = Some(<<"T2">>)],
   [WellFormed(engine) EXCEPT !.href = None]}
  \cup {[WellFormed(engine) EXCEPT !.href = Some(h)] : h \in Hrefs(engine)}
  \cup (IF engine \in {"brave", "mojeek"}
        THEN {[WellFormed(engine) EXCEPT !.wrapper = FALSE]} ELSE {})
  \cup (IF engine \in {"bing", "google"}
        THEN {[WellFormed(engine) EXCEPT !.link = FALSE]} ELSE {})

\* cards with every shape of the two summary paths
SummaryNodes(engine) ==
  {[WellFormed(engine) EXCEPT !.summary = p, !.fallback = f] :
     p \in Summaries(engine), f \in Fallbacks(engine)}

CandidateNodes(engine) ==
  {WellFormed(engine)} \cup ChromeNodes(engine) \cup TitleNodes(engine) \cup SummaryNodes(engine)

\* the candidate nodes of each provider
CandidateNodesOf == [engine \in Engines |-> CandidateNodes(engine)]

\* Bing and Google look for result cards in the whole document; the others
\* first look for their results container, and Brave for the banner in it
DocumentShapes(engine) ==
  {[container |-> TRUE, banner |-> FALSE]}
  \cup (IF engine \in {"brave", "mojeek", "yahoo", "yandex"}
        THEN {[container |-> FALSE, banner |-> FALSE]} ELSE {})
  \cup (IF engine = "brave" THEN {[container |-> TRUE, banner |-> TRUE]} ELSE {})

\* one call of Engine::parse
ParseCall ==
  /\ call = Idle
  /\ \E engine \in Engines :
       \E shape \in DocumentShapes(engine), n \in 0..MaxNodes :
         \E nodes \in [1..n -> CandidateNodesOf[engine]] :
           LET dom == [container |-> shape.container, banner |-> shape.banner, nodes |-> nodes]
           IN  /\ call' = [op |-> "parse", engine |-> engine, dom |-> dom]
               /\ ret' = parse(engine, dom)

SpecParse == Init /\ [][ParseCall \/ Return]_vars

Next == UrlCall \/ HeadersCall \/ ValidateCall \/ ParseCall \/ Return

Spec == Init /\ [][Next]_vars

(* ---------------------------------------------------------------------- *)
(* Claims about Engine::parse                                              *)
(* ---------------------------------------------------------------------- *)

ParseReturned == call.op = "parse" /\ ret.kind = "Ok"

\* the candidate node the k-th entry returned came from
SourceNode(k) == call.dom.nodes[ret.val[k].src]

\* a title node can be located in the candidate (Brave: inside its anchor;
\* Mojeek: inside its <h2>)
TitleLocated(engine, node) ==
  IF engine \in {"brave", "mojeek"} THEN node.wrapper /\ node.title ELSE node.title

\* C1: every entry parse() returns comes from a candidate node in which a
\* title node was located; a candidate without one (for Brave: no anchor, or
\* an anchor without a title-class descendant) is dropped.
C1_OnlyTitledEntries ==
  ParseReturned =>
    \A k \in 1..Len(ret.val) : TitleLocated(call.engine, SourceNode(k))

\* C2: for Brave, Mojeek, Yahoo and Yandex, parse() returns NoResultsFound
\* if and only if the results container is absent, and returns a list
\* whenever the container is present, whatever else it holds.
C2_NoResultsIffContainerAbsent ==
  (call.op = "parse" /\ call.engine \in {"brave", "mojeek", "yahoo", "yandex"}) =>
    IF call.dom.container THEN ret.kind = "Ok" ELSE ret = Err("NoResultsFound")

\* the anchor's link target, when the candidate has one
LinkTarget(engine, node) ==
  CASE engine \in {"bing", "google"} -> IF node.link THEN node.href ELSE None
    [] engine = "brave"              -> IF node.wrapper THEN node.href ELSE None
    [] OTHER                         -> node.href

\* the provider's unwrap rule: Google's redirect prefix is stripped, Yahoo's
\* target is the text between "RU=" and "RK=2", the others have none
Unwrapped(engine, target) ==
  CASE engine = "google" ->
         IF Len(target) >= 4 /\ SubSeq(target, 1, 4) = <<"/url", "?", "q", "=">>
         THEN SubSeq(target, 5, Len(target)) ELSE target
    [] engine = "yahoo" ->
         IF \E i, j \in 1..Len(target) : target[i] = "RU=" /\ target[j] = "RK=2"
         THEN LET i == CHOOSE i \in 1..Len(target) :
                         target[i] = "RU=" /\ \A m \in 1..(i - 1) : target[m] # "RU="
                  j == CHOOSE j \in 1..Len(target) :
                         target[j] = "RK=2" /\ \A m \in 1..(j - 1) : target[m] # "RK=2"
              IN  SubSeq(target, i + 1, j - 1)
         ELSE target
    [] OTHER -> target

\* the query parameters the provider's sanitizer removes
Tracking(engine, key) ==
  IF engine = "google" THEN key \in {"ved", "sa", "usg"} \cup UtmKeys ELSE key \in UtmKeys

TrackingFilter(engine, key, value) == Tracking(engine, key)

\* C7: the url of every entry parse() returns is the anchor's link target
\* after the provider's unwrap rule and after the URL sanitizer: no tracking
\* parameter is left in it, and it is the sanitized unwrapped target.
C7_UrlsSanitized ==
  ParseReturned =>
    \A k \in 1..Len(ret.val) :
      LET target == LinkTarget(call.engine, SourceNode(k))
          Filter(key, value) == TrackingFilter(call.engine, key, value)
      IN  /\ \A i \in 1..Len(Segments(ret.val[k].url)) :
               LET seg == Segments(ret.val[k].url)[i]
               IN  ~(IsPair(seg) /\ Tracking(call.engine, seg[1]))
          /\ ret.val[k].url =
               IF target = None THEN <<>>
               ELSE SanitizedUrl_new(Unwrapped(call.engine, target[1]), Filter)

\* Google: a redirect-wrapped link with tracking parameters comes back
\* unwrapped and without them
C7_Witness ==
  /\ ParseReturned
  /\ call.engine = "google"
  /\ Len(ret.val) >= 1
  /\ LinkTarget("google", SourceNode(1)) = Some(<<"/url", "?", "q", "=">> \o TrackedUrl)
  /\ ret.val[1].url = <<"https://b.example/p", "?", "x", "=", "1">>

\* the candidate is provider chrome: for Brave a snippet with id
\* "search-elsewhere" or "search-ad" or class "noscript-hide" or
\* "standalone", for Yahoo a result with class "AlsoTry_M"
NonOrganic(engine, node) ==
  CASE engine = "brave" ->
         \/ node.id \in {Some("search-elsewhere"), Some("search-ad")}
         \/ node.classes \cap {"noscript-hide", "standalone"} # {}
    [] engine = "yahoo" -> "AlsoTry_M" \in node.classes
    [] OTHER -> FALSE

\* C8: parse() of Brave and of Yahoo never returns an entry for a
\* non-organic candidate, and a document with one well-formed card and one
\* non-organic card yields exactly one entry.
C8_NonOrganicExcluded ==
  (ParseReturned /\ call.engine \in {"brave", "yahoo"}) =>
    /\ \A k \in 1..Len(ret.val) : ~NonOrganic(call.engine, SourceNode(k))
    /\ (/\ Len(call.dom.nodes) = 2
        /\ \E i \in 1..2 : call.dom.nodes[i] = WellFormed(call.engine)
        /\ \E i \in 1..2 : NonOrganic(call.engine, call.dom.nodes[i]))
       => Len(ret.val) = 1

\* the title the adapter reads from a candidate
TitleOf(engine, node) ==
  IF TitleLocated(engine, node) THEN unwrap_or_default(node.text) ELSE <<>>

\* C9: the list parse() returns is in document order of the candidates that
\* survive: the entries come from strictly later and later candidates (none
\* twice, none out of order), each carrying the title of its own candidate.
C9_DocumentOrder ==
  ParseReturned =>
    /\ \A k \in 1..Len(ret.val) :
         /\ ret.val[k].src \in 1..Len(call.dom.nodes)
         /\ ret.val[k].title = TitleOf(call.engine, SourceNode(k))
    /\ \A j, k \in 1..Len(ret.val) : j < k => ret.val[j].src < ret.val[k].src

\* Bing: two cards with different titles, both returned, in their order
C9_Witness ==
  /\ ParseReturned
  /\ call.engine = "bing"
  /\ Len(call.dom.nodes) = 2
  /\ call.dom.nodes[1].text = Some(<<"T2">>)
  /\ call.dom.nodes[2].text = Some(<<"T1">>)
  /\ Len(ret.val) = 2
  /\ ret.val[1].title = <<"T2">>
  /\ ret.val[2].title = <<"T1">>

\* C15: parse() of Brave returns no entry for a snippet that does not carry
\* data-type="web": a snippet with another data-type and a snippet with no
\* data-type attribute are both left out.
C15_OnlyWebSnippets ==
  (ParseReturned /\ call.engine = "brave") =>
    \A k \in 1..Len(ret.val) : SourceNode(k).data_type = Some("web")

\* the text the primary summary path yields, if it yields one (Bing: the
\* caption wrapper's `b_lineclamp3` node; Brave: the `content` node)
PrimaryText(engine, node) ==
  IF node.summary = None THEN None
  ELSE IF engine = "bing"
       THEN (IF node.summary[1] = None THEN None ELSE node.summary[1][1])
       ELSE node.summary[1]

\* the text the second path yields, if it yields one (Bing: the second
\* `exsni` child of the card wrapper; Brave: the `inline-qa-answer` node)
SecondaryText(engine, node) ==
  IF node.fallback = None THEN None
  ELSE IF engine = "bing"
       THEN (IF Len(node.fallback[1]) >= 2 THEN node.fallback[1][2] ELSE None)
       ELSE node.fallback[1]

\* the lead taken off the primary text: Bing's "\u{a0}· ", Brave's leading
\* white space
WithoutLead(engine, text) ==
  IF text # <<>> /\ text[1] = (IF engine = "bing" THEN "U+00A0 U+00B7 U+0020" ELSE " ")
  THEN Tail(text) ELSE text

\* the candidate is one the adapter extracts from, whatever its summary
Extracted(engine, node) ==
  IF engine = "bing" THEN node.title ELSE brave_keep(node)

C17_CleanUrlTotal ==
  (call.op = "parse" /\ call.engine = "yahoo" /\ call.dom.container) =>
    /\ ret.kind = "Ok"
    /\ \A i \in 1..Len(call.dom.nodes) :
         call.dom.nodes[i].href # None =>
           clean_url(call.dom.nodes[i].href[1]) = Ok(Unwrapped("yahoo", call.dom.nodes[i].href[1]))

\* Google's cleaning of a link target: the redirect prefix stripped, then
\* the tracking parameters removed
GoogleClean(target) ==
  SanitizedUrl_new(google_unwrap(target), google_filter_search_param_in_result_url)

\* C13: cleaning a link target twice gives what cleaning it once gives,
\* wherever the cleaning returns: for Google (prefix strip, then removal of
\* ved, sa, usg, utm*) the url of a returned entry is left as it is by a
\* second cleaning, and for Yahoo clean_url applied to its own result
\* returns that result.
C13_CleanIdempotent ==
  ParseReturned =>
    \A k \in 1..Len(ret.val) :
      /\ call.engine = "google" => GoogleClean(ret.val[k].url) = ret.val[k].url
      /\ (call.engine = "yahoo" /\ SourceNode(k).href # None) =>
           LET once == clean_url(SourceNode(k).href[1])
           IN  once.kind = "Ok" => clean_url(once.val) = once

(* ---------------------------------------------------------------------- *)
(* Claims about calls in any order                                         *)
(* ---------------------------------------------------------------------- *)

====
